---- MODULE Spec2Model ----
(***************************************************************************)
(* Model of the Kaneo extension for Raycast                                *)
(*   src/extensions/kaneo-for-raycast/src/list-projects.tsx                *)
(*   src/extensions/kaneo-for-raycast/src/notifications.tsx                *)
(*                                                                         *)
(* The pure view computations (the two task sorts, the per-column          *)
(* rendering, the notification sort, the due-date colour, the description  *)
(* clean-up) are operators applied by the actions of SpecSort, SpecRender, *)
(* SpecNotif, SpecUrgency and SpecText to inputs drawn from bounded sets.  *)
(* The mutation handlers are the state machine of Spec.                    *)
(***************************************************************************)
EXTENDS Integers, Sequences, FiniteSets, TLC

VARIABLES
    tasks,          \* Task[] handed to sortTasksByPriority / sortTasksByDueDate
    sorted,         \* the array the sort returned
    sortPc,         \* "input" | "priority" | "dueDate": which sort has run
    projectDetail,  \* ProjectTasksList: the fetched ProjectDetail ({columns})
    sort,           \* ProjectTasksList: the `sort` preference
    sections,       \* ProjectTasksList: the rendered <List.Section>s
    notifications,  \* notifications Command: the fetched Notification[]
    notifList,      \* notifications Command: the rendered list (sortedNotifications)
    dueDate,        \* list item: item.dueDate
    now,            \* list item: the instant `new Date()` returns
    tzOffset,       \* list item: local time minus UTC, in ticks
    dueTag,         \* list item: colour of the due-date tag
    description,    \* the description handed to cleanDescription
    cleaned,        \* the string cleanDescription returned
    shownItem,      \* a list entry: task priority, its column, a notification's resource type
    itemView,       \* what the views show for `shownItem`
    formName,       \* CreateProjectForm: the value of the Name field
    formSlug,       \* CreateProjectForm: the value of the Slug field
    viewPc,         \* "loading" | "rendered": whether the view has rendered its data
    command,        \* the mounted view: "tasks" | "projects" | "notifications" |
                    \* "create-project" | "create-task" | "create-task-command" |
                    \* "task-detail"
    remote,         \* the collection held by the remote data source
    data,           \* useFetch `data`: the collection the view displays
    fetch,          \* the useFetch request in flight, if any
    detail,         \* TaskDetailView: its useFetch `data` (the task) and GET in flight
    gets,           \* how the GET of each revalidate call ended, and the last one
    inv             \* the invocations of the mutation handlers

sortVars == <<tasks, sorted, sortPc>>

renderVars == <<projectDetail, sort, sections>>

notifVars == <<notifications, notifList>>

urgencyVars == <<dueDate, now, tzOffset, dueTag>>

textVars == <<description, cleaned>>

itemVars == <<shownItem, itemView>>

slugVars == <<formName, formSlug>>

pureVars == <<sortVars, renderVars, notifVars, urgencyVars, textVars, itemVars, slugVars, viewPc>>

handlerVars == <<command, remote, data, fetch, detail, gets, inv>>

vars == <<pureVars, handlerVars>>

-----------------------------------------------------------------------------
(* Bounds                                                                  *)

\* longest task array handed to a sort
MaxLen == 3

\* number of distinct calendar days a sorted date is drawn from
MaxDay == 2

\* number of instants a calendar day is divided into
TicksPerDay == 2

\* longest task array of one column
MaxColTasks == 2

\* last calendar day a classified due date is drawn from
MaxDueDay == 6

\* number of handler invocations in one behaviour
MaxInvocations == 2

\* longest description, in characters, enumerated exhaustively
MaxChars == 4

\* longest description, in tags and text characters, built from whole tags
MaxTokens == 2

\* longest project name typed, in characters
MaxName == 7

-----------------------------------------------------------------------------
(* JavaScript values                                                       *)

\* A JS number that may be NaN.
Num(n) == [nan |-> FALSE, v |-> n]

NaN == [nan |-> TRUE, v |-> 0]

\* a - b on JS numbers: NaN is absorbing
Minus(a, b) == IF a.nan \/ b.nan THEN NaN ELSE Num(a.v - b.v)

\* An absent dueDate (null, undefined or ""): every one of them is falsy.
NoDate == <<>>

\* A date string is modelled by <<day, tick>>: its calendar day and its time
\* of day; `new Date(s).getTime()` is the instant it denotes, NaN for "".
GetTime(s) == IF s = NoDate THEN NaN ELSE Num(s[1] * TicksPerDay + s[2])

\* Array.prototype.indexOf: 0-based index of the first occurrence, -1 if none
IndexOf(arr, x) ==
    IF \E i \in DOMAIN arr : arr[i] = x
    THEN (CHOOSE i \in DOMAIN arr : arr[i] = x /\ \A j \in 1..(i - 1) : arr[j] # x) - 1
    ELSE -1

\* x || dflt on strings: "" (like null and undefined) is falsy
OrElse(x, dflt) == IF x = "" THEN dflt ELSE x

\* The value Array.prototype.sort uses for a comparator result: NaN is +0.
SortCompare(r) == IF r.nan THEN 0 ELSE r.v

\* ECMA-262 "consistent comparator" for the elements of arr.
Consistent(arr, cmp(_, _)) ==
    LET C(i, j) == SortCompare(cmp(arr[i], arr[j]))
        D == DOMAIN arr
    IN  /\ \A i \in D : C(i, i) = 0
        /\ \A i, j \in D : (C(i, j) = 0) => (C(j, i) = 0)
        /\ \A i, j, k \in D : (C(i, j) = 0 /\ C(j, k) = 0) => (C(i, k) = 0)
        /\ \A i, j, k \in D : (C(i, j) < 0 /\ C(j, k) < 0) => (C(i, k) < 0)
        /\ \A i, j, k \in D : (C(i, j) > 0 /\ C(j, k) > 0) => (C(i, k) > 0)

Perms(n) == {p \in [1..n -> 1..n] : \A i, j \in 1..n : (p[i] = p[j]) => (i = j)}

\* [...arr].sort(cmp): the set of arrays the sort may return.  With a
\* consistent comparator it is the one stable ascending arrangement; with an
\* inconsistent one the order is implementation-defined (any permutation).
ArraySort(arr, cmp(_, _)) ==
    LET n == Len(arr)
        C(a, b) == SortCompare(cmp(a, b))
        Stable(p) == \A i, j \in 1..n :
                        (i < j) => \/ C(arr[p[i]], arr[p[j]]) < 0
                                   \/ C(arr[p[i]], arr[p[j]]) = 0 /\ p[i] < p[j]
    IN  IF Consistent(arr, cmp)
        THEN {[k \in 1..n |-> arr[p[k]]] : p \in {q \in Perms(n) : Stable(q)}}
        ELSE {[k \in 1..n |-> arr[p[k]]] : p \in Perms(n)}

-----------------------------------------------------------------------------
(* The collections behind the three list views                             *)

\* identifiers of the records of a collection (tasks, projects or
\* notifications, depending on the mounted view)
ItemIds == {"42", "43"}

\* a record that is not (or no longer) in the collection
Gone == [exists |-> FALSE, status |-> "", priority |-> "", isRead |-> FALSE]

EmptyCollection == [id \in ItemIds |-> Gone]

\* the views that are a form creating a record
FormCommands == {"create-project", "create-task", "create-task-command"}

\* What the remote data source holds when the view is opened: tasks in
\* column to-do without a priority, projects, unread notifications; under a
\* form one record, the other identifier being free for the created one.
InitialCollection(cmd) ==
    [id \in ItemIds |->
        IF cmd \in FormCommands /\ id # "42"
        THEN Gone
        ELSE [exists |-> TRUE,
              status |-> IF cmd \in {"tasks", "create-task", "task-detail"}
                         THEN "to-do" ELSE "",
              priority |-> "",
              isRead |-> FALSE]]

NoFetch == [phase |-> "idle", owner |-> 0, snap |-> EmptyCollection]

\* the task TaskDetailView was pushed for
TaskId == "42"

\* TaskDetailView not mounted, or mounted with nothing fetched yet
NoDetail == [task |-> Gone, phase |-> "idle", owner |-> 0, snap |-> Gone]

Invocations == 1..MaxInvocations

\* the callers of revalidate: 0 is the view when it mounts
Callers == 0..MaxInvocations

NoGets == [of |-> [c \in Callers |-> "none"], last |-> "none"]

NoRequests == <<>>

\* no response received (yet, or the fetch was rejected)
NoResponse == [ok |-> FALSE, status |-> "", statusText |-> "", message |-> ""]

NoReport == <<>>

\* the values of a form: name or title, slug, project, priority, status
NoForm == [title |-> "", slug |-> "", projectId |-> "", priority |-> "", status |-> ""]

\* the callbacks a form has called
NoEffects == <<>>

IdleInvocation ==
    [kind |-> "none", id |-> "", value |-> "", old |-> "", pc |-> "idle", confirmed |-> "n/a",
     sent |-> NoRequests, outcome |-> "none", response |-> NoResponse, refetches |-> 0,
     toast |-> "none", shown |-> 0, failures |-> 0, report |-> NoReport,
     form |-> NoForm, validation |-> "n/a", effects |-> NoEffects,
     detailPc |-> "none", detailRefetches |-> 0]

HandlersIdle ==
    /\ command = "tasks"
    /\ remote = EmptyCollection
    /\ data = EmptyCollection
    /\ fetch = NoFetch
    /\ detail = NoDetail
    /\ gets = NoGets
    /\ inv = [i \in Invocations |-> IdleInvocation]

-----------------------------------------------------------------------------
(* ProjectTasksList: the two sorts                                         *)

priorityOrder == <<"urgent", "high", "medium", "low", "no-priority">>

\* comparePriority without the `=== -1` fallback: an unknown priority
\* compares as index -1 and sorts first.
comparePriorityNoFallback(a, b) ==
    Num(IndexOf(priorityOrder, OrElse(a.priority, "no-priority"))
        - IndexOf(priorityOrder, OrElse(b.priority, "no-priority")))

comparePriority(a, b) ==
    LET aPriority == OrElse(a.priority, "no-priority")
        bPriority == OrElse(b.priority, "no-priority")
        aIndex == IndexOf(priorityOrder, aPriority)
        bIndex == IndexOf(priorityOrder, bPriority)
        aOrder == IF aIndex = -1 THEN Len(priorityOrder) ELSE aIndex
        bOrder == IF bIndex = -1 THEN Len(priorityOrder) ELSE bIndex
    IN  Num(aOrder - bOrder)

sortTasksByPriority(ts) == ArraySort(ts, comparePriority)

compareDueDate(a, b) == Minus(GetTime(a.dueDate), GetTime(b.dueDate))

sortTasksByDueDate(ts) == ArraySort(ts, compareDueDate)

-----------------------------------------------------------------------------
(* Inputs of the sorts                                                     *)

Priorities == {"", "urgent", "high", "medium", "low", "no-priority", "critical"}

Statuses == {"to-do", "done", "archived"}

DayTicks == 0..(TicksPerDay - 1)

\* due dates of the sorted tasks: absent, or midnight of a day
DueDates == {NoDate} \cup ((1..MaxDay) \X {0})

Task(i, s, p, d) == [id |-> i, status |-> s, priority |-> p, dueDate |-> d]

\* Arrays of n tasks; the id of a task is its position in the input.
TaskArrays(n, P, D) ==
    {[i \in 1..n |-> Task(i, "to-do", f[i][1], f[i][2])] : f \in [1..n -> P \X D]}

SortInputs ==
    UNION {TaskArrays(n, Priorities, {NoDate}) \cup TaskArrays(n, {""}, DueDates) :
            n \in 0..MaxLen}

SortIdle ==
    /\ tasks = <<>>
    /\ sorted = <<>>
    /\ sortPc = "input"

RenderIdle ==
    /\ projectDetail = [columns |-> <<>>]
    /\ sort = "priority"
    /\ sections = <<>>

NotifIdle ==
    /\ notifications = <<>>
    /\ notifList = <<>>

UrgencyIdle ==
    /\ dueDate = NoDate
    /\ now = 0
    /\ tzOffset = 0
    /\ dueTag = "unrendered"

TextIdle ==
    /\ description = [defined |-> FALSE]
    /\ cleaned = <<>>

NoItem == [priority |-> "", column |-> [id |-> "", name |-> <<>>], resourceType |-> ""]

ItemIdle ==
    /\ shownItem = NoItem
    /\ itemView = [rendered |-> FALSE]

SlugIdle ==
    /\ formName = <<>>
    /\ formSlug = <<>>

InitSort ==
    /\ tasks \in SortInputs
    /\ sorted = <<>>
    /\ sortPc = "input"
    /\ RenderIdle
    /\ NotifIdle
    /\ UrgencyIdle
    /\ HandlersIdle
    /\ SlugIdle
    /\ ItemIdle
    /\ TextIdle
    /\ viewPc = "loading"

SortByPriority ==
    /\ sortPc = "input"
    /\ sorted' \in sortTasksByPriority(tasks)
    /\ sortPc' = "priority"
    /\ UNCHANGED <<tasks, renderVars, notifVars, urgencyVars, viewPc, textVars, itemVars, slugVars, handlerVars>>

SortByDueDate ==
    /\ sortPc = "input"
    /\ sorted' \in sortTasksByDueDate(tasks)
    /\ sortPc' = "dueDate"
    /\ UNCHANGED <<tasks, renderVars, notifVars, urgencyVars, viewPc, textVars, itemVars, slugVars, handlerVars>>

NextSort ==
    \/ SortByPriority
    \/ SortByDueDate

SpecSort == InitSort /\ [][NextSort]_vars

\* The rank the specification gives a priority value.
PriorityRank(p) ==
    CASE p = "urgent" -> 0
      [] p = "high" -> 1
      [] p = "medium" -> 2
      [] p = "low" -> 3
      [] p \in {"no-priority", ""} -> 4
      [] OTHER -> 5

\* out is a rearrangement of in (the id of a task is its input position)
Rearranged(in, out) ==
    /\ Len(out) = Len(in)
    /\ \A i \in DOMAIN in : \E k \in DOMAIN out : out[k] = in[i]
    /\ \A k \in DOMAIN out : out[k] = in[out[k].id]

\* C1: sortTasksByPriority returns the tasks ordered by the rank
\* urgent > high > medium > low > no-priority (or absent) > any other value,
\* and tasks of equal rank keep their relative input order.
C1_SortedByPriority ==
    (sortPc = "priority") =>
        /\ Rearranged(tasks, sorted)
        /\ \A i, j \in DOMAIN sorted :
              (i < j) =>
                 \/ PriorityRank(sorted[i].priority) < PriorityRank(sorted[j].priority)
                 \/ /\ PriorityRank(sorted[i].priority) = PriorityRank(sorted[j].priority)
                    /\ sorted[i].id < sorted[j].id

C1_Witness ==
    /\ sortPc = "priority"
    /\ Len(tasks) = 3
    /\ tasks[1].priority = "critical"
    /\ tasks[2].priority = ""
    /\ tasks[3].priority = "no-priority"
    /\ <<sorted[1].id, sorted[2].id, sorted[3].id>> = <<2, 3, 1>>

\* C2: sortTasksByDueDate places every task with an absent due date before
\* every task with a present one, and orders the present ones ascending by
\* timestamp, ties keeping input order.
C2_AbsentFirstThenAscending ==
    (sortPc = "dueDate") =>
        /\ Rearranged(tasks, sorted)
        /\ \A i, j \in DOMAIN sorted :
              (i < j) =>
                 \/ sorted[i].dueDate = NoDate /\ sorted[j].dueDate # NoDate
                 \/ /\ sorted[i].dueDate = NoDate
                    /\ sorted[j].dueDate = NoDate
                    /\ sorted[i].id < sorted[j].id
                 \/ /\ sorted[i].dueDate # NoDate
                    /\ sorted[j].dueDate # NoDate
                    /\ \/ GetTime(sorted[i].dueDate).v < GetTime(sorted[j].dueDate).v
                       \/ /\ GetTime(sorted[i].dueDate).v = GetTime(sorted[j].dueDate).v
                          /\ sorted[i].id < sorted[j].id

-----------------------------------------------------------------------------
(* ProjectTasksList: one <List.Section> per column                         *)

\* the tasks of a section taken by status instead of from column.tasks
sectionTasksByStatus(column, sortPref) ==
    LET n == Cardinality({i \in DOMAIN column.tasks : column.tasks[i].status = column.id})
        kept == [k \in 1..n |->
                    column.tasks[CHOOSE i \in DOMAIN column.tasks :
                        /\ column.tasks[i].status = column.id
                        /\ Cardinality({j \in 1..i : column.tasks[j].status = column.id}) = k]]
    IN  {kept}

\* const tasks = sort === "priority" ? sortTasksByPriority(column.tasks)
\*                                    : sortTasksByDueDate(column.tasks)
sectionTasks(column, sortPref) ==
    IF sortPref = "priority"
    THEN sortTasksByPriority(column.tasks)
    ELSE sortTasksByDueDate(column.tasks)

\* <List.Section key={column.id} title={column.name}>{tasks.map(...)}
renderSection(column, sortPref) ==
    {[key |-> column.id, title |-> column.name, items |-> ts] :
        ts \in sectionTasks(column, sortPref)}

\* projectDetail.columns.map((column) => ...): the section arrays the render
\* may produce, one section per column in the supplied order
RECURSIVE renderSections(_, _)
renderSections(columns, sortPref) ==
    IF columns = <<>>
    THEN {<<>>}
    ELSE {<<s>> \o rest : s \in renderSection(Head(columns), sortPref),
                          rest \in renderSections(Tail(columns), sortPref)}

ColumnIds == <<"to-do", "done">>

ColumnNames == <<"To Do", "Done">>

\* The priority and due date of the tasks of each status: the priority sort
\* and the due-date sort order them differently.
KindOf(status) ==
    CASE status = "to-do" -> <<"low", <<1, 0>>>>
      [] status = "done" -> <<"urgent", <<2, 0>>>>
      [] OTHER -> <<"", <<1, 1>>>>

\* The task arrays of column c: ids are unique across the project, the
\* status is whatever the remote data source sent.
ColumnTaskArrays(c) ==
    UNION {{[i \in 1..n |-> Task(c * (MaxColTasks + 1) + i, f[i], KindOf(f[i])[1], KindOf(f[i])[2])] :
                f \in [1..n -> Statuses]} : n \in 0..MaxColTasks}

Column(c, ts) == [id |-> ColumnIds[c], name |-> ColumnNames[c], tasks |-> ts]

ProjectDetails ==
    {[columns |-> <<Column(1, t1), Column(2, t2)>>] :
        t1 \in ColumnTaskArrays(1), t2 \in ColumnTaskArrays(2)}

InitRender ==
    /\ projectDetail \in ProjectDetails
    /\ sort \in {"priority", "dueDate"}
    /\ sections = <<>>
    /\ viewPc = "loading"
    /\ SortIdle
    /\ NotifIdle
    /\ UrgencyIdle
    /\ HandlersIdle
    /\ SlugIdle
    /\ ItemIdle
    /\ TextIdle

Rendered == viewPc = "rendered"

\* if (isLoading || !projectDetail) return <List isLoading />; otherwise the
\* sections are rendered from the fetched columns
RenderProjectTasks ==
    /\ viewPc = "loading"
    /\ sections' \in renderSections(projectDetail.columns, sort)
    /\ viewPc' = "rendered"
    /\ UNCHANGED <<projectDetail, sort, sortVars, notifVars, urgencyVars, textVars, itemVars, slugVars, handlerVars>>

NextRender == RenderProjectTasks

SpecRender == InitRender /\ [][NextRender]_vars

\* every task the remote data source supplied, in any column
AllTasks ==
    UNION {{projectDetail.columns[c].tasks[i] : i \in DOMAIN projectDetail.columns[c].tasks} :
            c \in DOMAIN projectDetail.columns}

ShownIn(t, c) == \E k \in DOMAIN sections[c].items : sections[c].items[k] = t

\* each supplied task sits in the column its status names
GroupedByStatus ==
    \A c \in DOMAIN projectDetail.columns :
        \A i \in DOMAIN projectDetail.columns[c].tasks :
            projectDetail.columns[c].tasks[i].status = projectDetail.columns[c].id

\* C7 (as stated): a task is shown in the section of column C if and only if
\* its status equals C's identifier, so a task whose status matches no
\* column is shown in no section.
C7_ShownIffStatusMatches ==
    Rendered =>
        \A c \in DOMAIN projectDetail.columns :
            \A t \in AllTasks : ShownIn(t, c) <=> (t.status = projectDetail.columns[c].id)

\* C7 (amended): sections follow the supplied columns in order, and the
\* section of column C shows exactly the tasks of C's own supplied task
\* array, whatever their status; shown-iff-status-matches holds when the
\* supplied arrays are themselves grouped by status.
C7_ShownIffInColumnTasks ==
    Rendered =>
        /\ Len(sections) = Len(projectDetail.columns)
        /\ \A c \in DOMAIN projectDetail.columns :
              /\ sections[c].key = projectDetail.columns[c].id
              /\ Len(sections[c].items) = Len(projectDetail.columns[c].tasks)
              /\ \A t \in AllTasks :
                    ShownIn(t, c) <=>
                        \E i \in DOMAIN projectDetail.columns[c].tasks :
                            projectDetail.columns[c].tasks[i] = t
        /\ GroupedByStatus =>
              \A c \in DOMAIN projectDetail.columns :
                  \A t \in AllTasks :
                      ShownIn(t, c) <=> (t.status = projectDetail.columns[c].id)

\* a task whose status names no column, and one whose status names the
\* other column, are both shown in the section of the column that holds them
C7_Witness ==
    /\ Rendered
    /\ \E t \in AllTasks : t.status = "archived" /\ ShownIn(t, 1)
    /\ \E t \in AllTasks : t.status = "to-do" /\ ShownIn(t, 2) /\ ~ShownIn(t, 1)

-----------------------------------------------------------------------------
(* notifications Command: sortedNotifications                              *)

\* the comparator without the isRead test: most recent first only
compareNotificationsByDateOnly(a, b) ==
    Minus(GetTime(b.createdAt), GetTime(a.createdAt))

\* (a, b) => a.isRead !== b.isRead ? (a.isRead ? 1 : -1)
\*                                 : getTime(b.createdAt) - getTime(a.createdAt)
compareNotifications(a, b) ==
    IF a.isRead # b.isRead
    THEN (IF a.isRead THEN Num(1) ELSE Num(-1))
    ELSE Minus(GetTime(b.createdAt), GetTime(a.createdAt))

sortedNotifications(ns) == ArraySort(ns, compareNotifications)

CreatedAts == (1..MaxDay) \X {0}

\* Arrays of n notifications; the id of a notification is its position.
NotificationArrays(n) ==
    {[i \in 1..n |-> [id |-> i, isRead |-> f[i][1], createdAt |-> f[i][2]]] :
        f \in [1..n -> BOOLEAN \X CreatedAts]}

InitNotif ==
    /\ notifications \in UNION {NotificationArrays(n) : n \in 0..MaxLen}
    /\ notifList = <<>>
    /\ viewPc = "loading"
    /\ SortIdle
    /\ RenderIdle
    /\ UrgencyIdle
    /\ HandlersIdle
    /\ SlugIdle
    /\ ItemIdle
    /\ TextIdle

NotifRendered == viewPc = "rendered"

RenderNotifications ==
    /\ viewPc = "loading"
    /\ notifList' \in sortedNotifications(notifications)
    /\ viewPc' = "rendered"
    /\ UNCHANGED <<notifications, sortVars, renderVars, urgencyVars, textVars, itemVars, slugVars, handlerVars>>

NextNotif == RenderNotifications

SpecNotif == InitNotif /\ [][NextNotif]_vars

\* C8: in the sorted notification list every unread notification comes
\* before every read one, and within the unread and within the read
\* notifications the order is by creation timestamp, most recent first.
C8_UnreadFirstThenNewest ==
    NotifRendered =>
        /\ Rearranged(notifications, notifList)
        /\ \A i, j \in DOMAIN notifList :
              (i < j) =>
                 /\ ~(notifList[i].isRead /\ ~notifList[j].isRead)
                 /\ (notifList[i].isRead = notifList[j].isRead) =>
                       (GetTime(notifList[i].createdAt).v >= GetTime(notifList[j].createdAt).v)

\* an older unread notification is listed before a newer read one, and two
\* unread ones are listed newest first
C8_Witness ==
    /\ NotifRendered
    /\ Len(notifications) = 3
    /\ notifications[1].isRead /\ notifications[1].createdAt = <<2, 0>>
    /\ ~notifications[2].isRead /\ notifications[2].createdAt = <<1, 0>>
    /\ ~notifications[3].isRead /\ notifications[3].createdAt = <<2, 0>>
    /\ <<notifList[1].id, notifList[2].id, notifList[3].id>> = <<3, 2, 1>>

-----------------------------------------------------------------------------
(* ProjectTasksList: colour of the due-date tag of a list item             *)

\* threeDaysFromNow.setDate(today.getDate() + 3)
SoonDays == 3

\* d.setHours(0, 0, 0, 0): the instant of local midnight of the local day of t
SetHoursZero(t, off) == ((t + off) \div TicksPerDay) * TicksPerDay - off

\* d.setDate(d.getDate() + n): the same local time n calendar days later
AddDays(t, n) == t + n * TicksPerDay

\* the colour computed without dueDate.setHours(0, 0, 0, 0)
dueTagColorNoTruncation(due, t, off) ==
    LET today == SetHoursZero(t, off)
        due0 == GetTime(due).v
        threeDaysFromNow == AddDays(today, SoonDays)
    IN  IF due0 < today THEN "Red"
        ELSE IF due0 <= threeDaysFromNow THEN "Orange"
        ELSE "Green"

\* item.dueDate ? [{tag: {color: (() => {...})()}}] : []
dueTagColor(due, t, off) ==
    IF due = NoDate
    THEN "none"
    ELSE LET today == SetHoursZero(t, off)
             due0 == SetHoursZero(GetTime(due).v, off)
             threeDaysFromNow == AddDays(today, SoonDays)
         IN  IF due0 < today THEN "Red"
             ELSE IF due0 <= threeDaysFromNow THEN "Orange"
             ELSE "Green"

InitUrgency ==
    /\ dueDate \in {NoDate} \cup ((1..MaxDueDay) \X DayTicks)
    /\ now \in (2 * TicksPerDay)..((MaxDay + 2) * TicksPerDay - 1)
    /\ tzOffset \in (1 - TicksPerDay)..(TicksPerDay - 1)
    /\ dueTag = "unrendered"
    /\ viewPc = "loading"
    /\ SortIdle
    /\ RenderIdle
    /\ NotifIdle
    /\ HandlersIdle
    /\ SlugIdle
    /\ ItemIdle
    /\ TextIdle

RenderDueTag ==
    /\ viewPc = "loading"
    /\ dueTag' = dueTagColor(dueDate, now, tzOffset)
    /\ viewPc' = "rendered"
    /\ UNCHANGED <<dueDate, now, tzOffset, sortVars, renderVars, notifVars, textVars, itemVars, slugVars, handlerVars>>

NextUrgency == RenderDueTag

SpecUrgency == InitUrgency /\ [][NextUrgency]_vars

\* the local calendar day of an instant
LocalDay(t, off) == (t + off) \div TicksPerDay

\* C9: with the due date and now both truncated to midnight, the tag is
\* overdue (red) when the due day is strictly before today, due-soon
\* (orange) from today up to and including today + 3 days, upcoming (green)
\* when later; the class depends on the calendar days only, not on the time
\* of day of either instant.
C9_UrgencyByCalendarDay ==
    (viewPc = "rendered" /\ dueDate # NoDate) =>
        LET dueDay == LocalDay(GetTime(dueDate).v, tzOffset)
            today == LocalDay(now, tzOffset)
        IN  /\ (dueTag = "Red") <=> (dueDay < today)
            /\ (dueTag = "Orange") <=> (today <= dueDay /\ dueDay <= today + 3)
            /\ (dueTag = "Green") <=> (dueDay > today + 3)

\* due three calendar days from today, at a later time of day than now
C9_Witness ==
    /\ viewPc = "rendered"
    /\ dueDate # NoDate
    /\ LocalDay(GetTime(dueDate).v, tzOffset) = LocalDay(now, tzOffset) + 3
    /\ GetTime(dueDate).v > now + 3 * TicksPerDay
    /\ dueTag = "Orange"

-----------------------------------------------------------------------------
(* cleanDescription                                                        *)
(*                                                                         *)
(* A string is a sequence of characters; a run of letters that holds no    *)
(* markup character ("Hello") is written as one element.                   *)

\* `description` when the task has none
Undefined == [defined |-> FALSE]

Str(cs) == [defined |-> TRUE, chars |-> cs]

\* does `pat` occur in s at index i
OccursAt(s, i, pat) ==
    /\ i + Len(pat) - 1 <= Len(s)
    /\ SubSeq(s, i, i + Len(pat) - 1) = pat

\* s.replace(/pat/g, repl) for a literal pattern, scanning from index i:
\* leftmost matches, not overlapping, the replacement is not scanned again
RECURSIVE replaceLiteral(_, _, _, _)
replaceLiteral(s, i, pat, repl) ==
    IF i > Len(s) THEN <<>>
    ELSE IF OccursAt(s, i, pat) THEN repl \o replaceLiteral(s, i + Len(pat), pat, repl)
    ELSE <<s[i]>> \o replaceLiteral(s, i + 1, pat, repl)

\* the characters \s matches, of those that occur in the model
Whitespace == {" ", "\n"}

\* the first index from i on that holds no whitespace
RECURSIVE skipWhitespace(_, _)
skipWhitespace(s, i) ==
    IF i <= Len(s) /\ s[i] \in Whitespace THEN skipWhitespace(s, i + 1) ELSE i

\* length of the match of /<br\s*\/?>/ at index i, 0 when there is none
matchLineBreak(s, i) ==
    IF ~OccursAt(s, i, <<"<", "b", "r">>) THEN 0
    ELSE LET j == skipWhitespace(s, i + 3)
             k == IF j <= Len(s) /\ s[j] = "/" THEN j + 1 ELSE j
         IN  IF k <= Len(s) /\ s[k] = ">" THEN k - i + 1 ELSE 0

\* s.replace(/<br\s*\/?>/g, "\n"), scanning from index i
RECURSIVE replaceLineBreaks(_, _)
replaceLineBreaks(s, i) ==
    IF i > Len(s) THEN <<>>
    ELSE IF matchLineBreak(s, i) > 0
         THEN <<"\n">> \o replaceLineBreaks(s, i + matchLineBreak(s, i))
    ELSE <<s[i]>> \o replaceLineBreaks(s, i + 1)

POpen == <<"<", "p", ">">>

PClose == <<"<", "/", "p", ">">>

\* mutant: the three replacements, then a collapse of the newline pairs
\* they leave
cleanDescriptionCollapsing(d) ==
    IF d.defined /\ Len(d.chars) > 0
    THEN replaceLiteral(
             replaceLineBreaks(
                 replaceLiteral(replaceLiteral(d.chars, 1, POpen, <<>>), 1, PClose, <<"\n">>),
                 1),
             1, <<"\n", "\n">>, <<"\n">>)
    ELSE <<"No description">>

cleanDescription(d) ==
    IF d.defined /\ Len(d.chars) > 0
    THEN replaceLineBreaks(
             replaceLiteral(replaceLiteral(d.chars, 1, POpen, <<>>), 1, PClose, <<"\n">>),
             1)
    ELSE <<"No description">>

\* the characters descriptions are enumerated over
Alphabet == {"<", ">", "/", "p", "b", "r", " "}

CharStrings == UNION {[1..n -> Alphabet] : n \in 0..MaxChars}

\* whole tags and text characters
Tokens ==
    { POpen, PClose,
      <<"<", "b", "r", ">">>, <<"<", "b", "r", "/", ">">>, <<"<", "b", "r", " ", "/", ">">>,
      <<"<", "b", ">">>, <<"<", "/", "b", ">">>, <<"<", "P", ">">>,
      <<"<", "p", " ", "b", ">">>, <<"<", "B", "R", ">">>,
      <<"Hello">>, <<" ">> }

RECURSIVE Concat(_)
Concat(ts) == IF ts = <<>> THEN <<>> ELSE Head(ts) \o Concat(Tail(ts))

TokenStrings == {Concat(ts) : ts \in UNION {[1..n -> Tokens] : n \in 0..MaxTokens}}

\* "<p>Hello</p><br>World"
Example ==
    <<"<", "p", ">", "Hello", "<", "/", "p", ">", "<", "b", "r", ">", "World">>

Descriptions ==
    {Undefined} \cup {Str(cs) : cs \in CharStrings \cup TokenStrings \cup {Example}}

InitText ==
    /\ description \in Descriptions
    /\ cleaned = <<>>
    /\ viewPc = "loading"
    /\ SortIdle
    /\ RenderIdle
    /\ NotifIdle
    /\ UrgencyIdle
    /\ HandlersIdle
    /\ SlugIdle
    /\ ItemIdle

Cleaned == viewPc = "rendered"

\* the views render cleanDescription(task.description)
CleanDescription ==
    /\ viewPc = "loading"
    /\ cleaned' = cleanDescription(description)
    /\ viewPc' = "rendered"
    /\ UNCHANGED <<description, sortVars, renderVars, notifVars, urgencyVars, itemVars, slugVars, handlerVars>>

NextText == CleanDescription

SpecText == InitText /\ [][NextText]_vars

\* index of the ">" that closes the tag opened just before index i, 0 when
\* the text ends or another "<" comes first
RECURSIVE TagEnd(_, _)
TagEnd(s, i) ==
    IF i > Len(s) \/ s[i] = "<" THEN 0
    ELSE IF s[i] = ">" THEN i
    ELSE TagEnd(s, i + 1)

\* s, from index i on, is text without angle brackets and complete tags
RECURSIVE WellFormed(_, _)
WellFormed(s, i) ==
    IF i > Len(s) THEN TRUE
    ELSE IF s[i] = ">" THEN FALSE
    ELSE IF s[i] = "<" THEN TagEnd(s, i + 1) # 0 /\ WellFormed(s, TagEnd(s, i + 1) + 1)
    ELSE WellFormed(s, i + 1)

\* <br>, <br/>, <br />: "<br", any whitespace, an optional slash, ">"
IsLineBreakTag(tag) ==
    /\ Len(tag) >= 4
    /\ SubSeq(tag, 1, 3) = <<"<", "b", "r">>
    /\ \E n \in 0..(Len(tag) - 4) :
          /\ \A k \in 4..(3 + n) : tag[k] \in Whitespace
          /\ SubSeq(tag, 4 + n, Len(tag) - 1) \in {<<>>, <<"/">>}

\* what one tag of the description becomes
TagImage(tag) ==
    IF tag = POpen THEN <<>>
    ELSE IF tag = PClose \/ IsLineBreakTag(tag) THEN <<"\n">>
    ELSE tag

\* the description with every tag replaced by its image
RECURSIVE TagwiseImage(_, _)
TagwiseImage(s, i) ==
    IF i > Len(s) THEN <<>>
    ELSE IF s[i] = "<"
         THEN TagImage(SubSeq(s, i, TagEnd(s, i + 1))) \o TagwiseImage(s, TagEnd(s, i + 1) + 1)
    ELSE <<s[i]>> \o TagwiseImage(s, i + 1)

Blank(d) == ~d.defined \/ d.chars = <<>>

\* C11 as stated: <p> is stripped, </p> and the line-break tags become a
\* newline, other markup is left alone, an empty or absent description
\* becomes "No description", and "<p>Hello</p><br>World" becomes
\* "Hello\nWorld".
C11_ExampleOneNewline ==
    Cleaned =>
        /\ Blank(description) => cleaned = <<"No description">>
        /\ (~Blank(description) /\ WellFormed(description.chars, 1))
              => cleaned = TagwiseImage(description.chars, 1)
        /\ description = Str(Example) => cleaned = <<"Hello", "\n", "World">>

\* C11 amended: in a description made of text and complete tags every <p>
\* is removed, every </p>, <br>, <br/> and <br /> becomes one newline, and
\* every other tag and all text stay; no </p> is ever left; an empty or
\* absent description becomes "No description"; "<p>Hello</p><br>World"
\* becomes "Hello\n\nWorld", one newline for </p> and one for <br>.
C11_CleanDescription ==
    Cleaned =>
        /\ Blank(description) => cleaned = <<"No description">>
        /\ (~Blank(description) /\ WellFormed(description.chars, 1))
              => cleaned = TagwiseImage(description.chars, 1)
        /\ ~Blank(description) => \A i \in 1..Len(cleaned) : ~OccursAt(cleaned, i, PClose)
        /\ description = Str(Example) => cleaned = <<"Hello", "\n", "\n", "World">>

C11_Witness ==
    /\ Cleaned
    /\ description = Str(Example)
    /\ cleaned = <<"Hello", "\n", "\n", "World">>

-----------------------------------------------------------------------------
(* Lookup tables and the priority shown for a task                         *)
(*                                                                         *)
(* A column name is the sequence of its words; a lookup key derived from   *)
(* it is the sequence of its words and separators.                         *)

columnPriorities == <<"no-priority", "low", "medium", "high", "urgent">>

Range(f) == {f[x] : x \in DOMAIN f}

\* what indexing an object with a key it does not hold gives
undefined == "undefined"

Lookup(table, key) == IF key \in DOMAIN table THEN table[key] ELSE undefined

\* x || dflt and x ?? dflt, for a value that is undefined or a non-empty string
OrDefault(x, dflt) == IF x = undefined THEN dflt ELSE x

columnIcons ==
    [k \in {<<"backlog">>, <<"to", "-", "do">>, <<"in", "-", "progress">>,
            <<"in", "-", "review">>, <<"done">>} |->
        CASE k = <<"backlog">> -> "Icon.CircleEllipsis"
          [] k = <<"to", "-", "do">> -> "Icon.CircleEllipsis"
          [] k = <<"in", "-", "progress">> -> "Icon.CircleProgress25"
          [] k = <<"in", "-", "review">> -> "Icon.CheckList"
          [] k = <<"done">> -> "Icon.CheckCircle"]

statusKey ==
    [k \in {"backlog", "to-do", "in-progress", "in-review", "done"} |->
        CASE k = "backlog" -> "b"
          [] k = "to-do" -> "t"
          [] k = "in-progress" -> "p"
          [] k = "in-review" -> "r"
          [] k = "done" -> "d"]

priorityKey ==
    [k \in {"no-priority", "low", "medium", "high", "urgent"} |->
        CASE k = "no-priority" -> "n"
          [] k = "low" -> "l"
          [] k = "medium" -> "m"
          [] k = "high" -> "h"
          [] k = "urgent" -> "u"]

priorityColor ==
    [k \in {"no-priority", "low", "medium", "high", "urgent"} |->
        CASE k = "no-priority" -> "#a0989a"
          [] k = "low" -> "#51a2ff"
          [] k = "medium" -> "#ffb900"
          [] k = "high" -> "#ff8904"
          [] k = "urgent" -> "#ff5252"]

typeIcon ==
    [k \in {"task", "project", "organization", "workspace"} |->
        CASE k = "task" -> "Icon.CheckList"
          [] k = "project" -> "Icon.AppWindowGrid2x2"
          [] k = "organization" -> "Icon.MugSteam"
          [] k = "workspace" -> "Icon.AppWindowGrid3x3"]

\* toLowerCase() of a word
toLowerCase(w) ==
    CASE w = "Backlog" -> "backlog"
      [] w = "To" -> "to"
      [] w = "Do" -> "do"
      [] w = "In" -> "in"
      [] w = "Progress" -> "progress"
      [] w = "Review" -> "review"
      [] w = "Done" -> "done"
      [] w = "Blocked" -> "blocked"
      [] w = "Ready" -> "ready"
      [] w = "For" -> "for"
      [] OTHER -> w

\* name.toLowerCase().replace(" ", "-"): only the first space is replaced
iconKey(name) ==
    [k \in 1..(IF name = <<>> THEN 0 ELSE 2 * Len(name) - 1) |->
        IF k % 2 = 1 THEN toLowerCase(name[(k + 1) \div 2])
        ELSE IF k = 2 THEN "-" ELSE " "]

\* capitalize(raw).replaceAll("-", " ")
capitalized(raw) ==
    CASE raw = "no-priority" -> "No priority"
      [] raw = "low" -> "Low"
      [] raw = "medium" -> "Medium"
      [] raw = "high" -> "High"
      [] raw = "urgent" -> "Urgent"
      [] raw = "critical" -> "Critical"
      [] OTHER -> raw

\* mutant: a priority outside the table is replaced by "no-priority"
priorityRawResolved(priority) ==
    IF OrElse(priority, "no-priority") \in DOMAIN priorityColor
    THEN OrElse(priority, "no-priority")
    ELSE "no-priority"

\* const priorityRaw = item.priority || "no-priority"
priorityRaw(priority) == OrElse(priority, "no-priority")

\* <List.Item> of ProjectTasksList: icon and priority tag
listItem(it) ==
    [ icon |-> Lookup(columnIcons, iconKey(it.column.name)),
      tagPriority |-> priorityRaw(it.priority),
      tagValue |-> capitalized(priorityRaw(it.priority)),
      tagColor |-> Lookup(priorityColor, priorityRaw(it.priority)) ]

\* TaskDetailView: the text under "## Priority"
detailPriority(it) ==
    [ priority |-> priorityRaw(it.priority),
      text |-> capitalized(priorityRaw(it.priority)) ]

\* the rank sortTasksByPriority compares the task by, and the value it ranks
sortPriority(it) ==
    [ priority |-> priorityRaw(it.priority),
      order |-> IF IndexOf(priorityOrder, priorityRaw(it.priority)) = -1
                THEN Len(priorityOrder)
                ELSE IndexOf(priorityOrder, priorityRaw(it.priority)) ]

\* an <Action> of the Change Status submenu for the item's column
statusAction(it) ==
    [ icon |-> OrDefault(Lookup(columnIcons, iconKey(it.column.name)), "Icon.Circle"),
      key |-> OrDefault(Lookup(statusKey, it.column.id), "s") ]

\* the <Action>s of the Change Priority submenu
priorityActions ==
    [k \in DOMAIN columnPriorities |->
        [ icon |-> "Icon.Circle",
          key |-> OrDefault(Lookup(priorityKey, columnPriorities[k]), "p") ]]

\* <List.Item> of the notifications Command
notificationItem(it) == [icon |-> Lookup(typeIcon, it.resourceType)]

ItemColumns ==
    { [id |-> "backlog", name |-> <<"Backlog">>],
      [id |-> "to-do", name |-> <<"To", "Do">>],
      [id |-> "in-progress", name |-> <<"In", "Progress">>],
      [id |-> "in-review", name |-> <<"In", "Review">>],
      [id |-> "done", name |-> <<"Done">>],
      [id |-> "blocked", name |-> <<"Blocked">>],
      [id |-> "ready-for-review", name |-> <<"Ready", "For", "Review">>] }

ResourceTypes == {"task", "project", "organization", "workspace", "comment"}

Items == [priority : Priorities, column : ItemColumns, resourceType : ResourceTypes]

InitItem ==
    /\ shownItem \in Items
    /\ itemView = [rendered |-> FALSE]
    /\ viewPc = "loading"
    /\ SortIdle
    /\ RenderIdle
    /\ NotifIdle
    /\ UrgencyIdle
    /\ TextIdle
    /\ HandlersIdle
    /\ SlugIdle

RenderItem ==
    /\ viewPc = "loading"
    /\ itemView' = [ rendered |-> TRUE,
                     list |-> listItem(shownItem),
                     detail |-> detailPriority(shownItem),
                     sort |-> sortPriority(shownItem),
                     statusAction |-> statusAction(shownItem),
                     priorityActions |-> priorityActions,
                     notification |-> notificationItem(shownItem) ]
    /\ viewPc' = "rendered"
    /\ UNCHANGED <<shownItem, sortVars, renderVars, notifVars, urgencyVars, textVars, slugVars, handlerVars>>

NextItem == RenderItem

SpecItem == InitItem /\ [][NextItem]_vars

PrioritySet == {"no-priority", "low", "medium", "high", "urgent"}

\* C12 as stated: the priority used for the list tag, the detail view and
\* the sort comparison of any task, its priority absent or outside the set
\* included, is one of no-priority, low, medium, high, urgent.
C12_PriorityAlwaysInSet ==
    itemView.rendered =>
        /\ itemView.list.tagPriority \in PrioritySet
        /\ itemView.detail.priority \in PrioritySet
        /\ itemView.sort.priority \in PrioritySet

\* C12 amended: an absent or empty priority is used as no-priority and a
\* priority of the set is used as it is, for the list tag, the detail view
\* and the sort comparison alike; a priority outside the set is not
\* replaced: it is shown capitalised, without a colour, and ranks last.
C12_AbsentPriorityResolved ==
    itemView.rendered =>
        LET used == IF shownItem.priority = "" THEN "no-priority" ELSE shownItem.priority
        IN  /\ itemView.list.tagPriority = used
            /\ itemView.detail.priority = used
            /\ itemView.sort.priority = used
            /\ shownItem.priority \in PrioritySet \cup {""} => used \in PrioritySet
            /\ shownItem.priority \notin PrioritySet \cup {""} =>
                  /\ itemView.list.tagColor = undefined
                  /\ itemView.list.tagValue = itemView.detail.text
                  /\ itemView.sort.order = Len(priorityOrder)

C12_Witness ==
    /\ itemView.rendered
    /\ shownItem.priority = "critical"
    /\ itemView.list.tagPriority = "critical"
    /\ itemView.sort.order = 5

\* C15: every icon, colour and shortcut looked up by a status, a column
\* name, a priority or a notification resource type is a defined value,
\* a fallback standing in for an unrecognized key.
C15_LookupsDefined ==
    itemView.rendered =>
        /\ itemView.list.icon # undefined
        /\ itemView.list.tagColor # undefined
        /\ itemView.statusAction.icon # undefined
        /\ itemView.statusAction.key # undefined
        /\ \A k \in DOMAIN itemView.priorityActions :
              /\ itemView.priorityActions[k].icon # undefined
              /\ itemView.priorityActions[k].key # undefined
        /\ itemView.notification.icon # undefined

-----------------------------------------------------------------------------
(* CreateProjectForm: the slug proposed while the name is typed            *)
(*                                                                         *)
(* A string is the sequence of its characters.  The names are typed over   *)
(* a small alphabet: a lower-case letter, a letter whose upper case is two *)
(* characters, the space U+0020 and a whitespace character that is not the *)
(* space (the tab stands for the others /\s/ matches).                     *)

NameAlphabet == {"a", "ß", " ", "\t"}

\* /\s/
IsSpace(c) == c \in {" ", "\t"}

\* the string without its leading whitespace
RECURSIVE dropSpaces(_)
dropSpaces(s) ==
    IF s # <<>> /\ IsSpace(Head(s)) THEN dropSpaces(Tail(s)) ELSE s

\* value.split(/\s+/), `piece` being the piece read so far: the pieces
\* between the runs of whitespace, the empty ones at both ends included
RECURSIVE splitFrom(_, _)
splitFrom(s, piece) ==
    IF s = <<>> THEN <<piece>>
    ELSE IF IsSpace(Head(s)) THEN <<piece>> \o splitFrom(dropSpaces(s), <<>>)
    ELSE splitFrom(Tail(s), Append(piece, Head(s)))

split(value) == splitFrom(value, <<>>)

\* .filter(Boolean): the empty string is falsy
filterBoolean(pieces) == SelectSeq(pieces, LAMBDA w : w # <<>>)

\* value.includes(" ")
includesSpace(value) == \E i \in DOMAIN value : value[i] = " "

\* String.prototype.substring(0, n) and slice(0, n) for 0 <= n
substring(s, n) == SubSeq(s, 1, IF n < Len(s) THEN n ELSE Len(s))

\* toUpperCase of one character
upperOf(c) ==
    CASE c = "a" -> <<"A">>
      [] c = "ß" -> <<"S", "S">>
      [] OTHER -> <<c>>

RECURSIVE toUpperCase(_)
toUpperCase(s) ==
    IF s = <<>> THEN <<>> ELSE upperOf(Head(s)) \o toUpperCase(Tail(s))

\* words.map((w) => w[0]).join("")
initials(words) == [k \in 1..Len(words) |-> words[k][1]]

\* a form that takes the first three characters of the name itself
slugTextOfName(value) ==
    LET words == filterBoolean(split(value))
    IN  IF includesSpace(value) THEN initials(words)
        ELSE IF words = <<>> THEN <<>>
        ELSE substring(value, 3)

\* value.includes(" ") ? words.map((w) => w[0]).join("")
\*                     : words[0]?.substring(0, 3) || ""
slugText(value) ==
    LET words == filterBoolean(split(value))
    IN  IF includesSpace(value) THEN initials(words)
        ELSE IF words = <<>> THEN <<>>
        ELSE substring(words[1], 3)

\* setValue("slug", slug.toUpperCase().slice(0, 3))
slugOf(value) == substring(toUpperCase(slugText(value)), 3)

\* the form as useForm builds it: both fields empty
InitSlug ==
    /\ formName = <<>>
    /\ formSlug = <<>>
    /\ viewPc = "loading"
    /\ SortIdle
    /\ RenderIdle
    /\ NotifIdle
    /\ UrgencyIdle
    /\ TextIdle
    /\ ItemIdle
    /\ HandlersIdle

\* onNameChange(value): the Name field takes the value and the Slug field
\* the slug derived from it
onNameChange(value) ==
    /\ formName' = value
    /\ formSlug' = slugOf(value)
    /\ UNCHANGED <<sortVars, renderVars, notifVars, urgencyVars, textVars, itemVars, viewPc,
                   handlerVars>>

\* the user types a character at the end of the name
TypeChar ==
    /\ Len(formName) < MaxName
    /\ \E c \in NameAlphabet : onNameChange(Append(formName, c))

\* the user deletes the last character of the name
DeleteChar ==
    /\ formName # <<>>
    /\ onNameChange(SubSeq(formName, 1, Len(formName) - 1))

NextSlug == TypeChar \/ DeleteChar

SpecSlug == InitSlug /\ [][NextSlug]_vars

-----------------------------------------------------------------------------
(* The mutation handlers of the three list views                           *)

\* handlers of list-projects.tsx: they show an animated toast first and
\* restyle it when the request ends
ListKinds == {"updateTaskStatus", "updateTaskPriority", "deleteTask", "deleteProject"}

\* handlers of notifications.tsx: they show one toast when they end
NotifKinds == {"markNotificationAsRead", "markAllNotificationsAsRead", "clearNotifications"}

\* handlers that begin with `await confirmAlert(...)`
Destructive == {"deleteTask", "deleteProject", "clearNotifications"}

\* handlers that act on one record
ItemKinds == {"updateTaskStatus", "updateTaskPriority", "deleteTask", "deleteProject",
              "markNotificationAsRead"}

\* onSubmit of CreateProjectForm, of CreateTaskForm and of the Create Task
\* command
FormKinds == {"createProject", "createTask", "createTaskCommand"}

\* handlers that show an animated toast first and restyle it at the end
ToastKinds == ListKinds \cup {"createProject", "createTask"}

KindsOf(cmd) ==
    CASE cmd = "tasks" -> {"updateTaskStatus", "updateTaskPriority", "deleteTask"}
      [] cmd = "projects" -> {"deleteProject"}
      [] cmd = "notifications" -> NotifKinds
      [] cmd = "create-project" -> {"createProject"}
      [] cmd = "create-task" -> {"createTask"}
      [] cmd = "task-detail" -> {"updateTaskStatus", "updateTaskPriority"}
      [] OTHER -> {"createTaskCommand"}

\* the workspaceId preference
WorkspaceId == "w1"

NoBody == {}

NoQuery == {}

\* a request sent with the wrong verb
requestOfAsPost(kind, id, value) ==
    [method |-> "POST",
     path |-> <<"api", "task", id>>,
     query |-> NoQuery,
     body |-> {<<"status", value>>, <<"priority", value>>}]

\* the request each handler hands to fetch(url, {method, headers, body})
requestOf(kind, id, value) ==
    CASE kind = "updateTaskStatus" ->
            [method |-> "PUT", path |-> <<"api", "task", "status", id>>,
             query |-> NoQuery, body |-> {<<"status", value>>}]
      [] kind = "updateTaskPriority" ->
            [method |-> "PUT", path |-> <<"api", "task", "priority", id>>,
             query |-> NoQuery, body |-> {<<"priority", value>>}]
      [] kind = "deleteTask" ->
            [method |-> "DELETE", path |-> <<"api", "task", id>>,
             query |-> NoQuery, body |-> NoBody]
      [] kind = "deleteProject" ->
            [method |-> "DELETE", path |-> <<"api", "project", id>>,
             query |-> {<<"workspaceId", WorkspaceId>>}, body |-> NoBody]
      [] kind = "markNotificationAsRead" ->
            [method |-> "PATCH", path |-> <<"api", "notification", id, "read">>,
             query |-> NoQuery, body |-> NoBody]
      [] kind = "markAllNotificationsAsRead" ->
            [method |-> "PATCH", path |-> <<"api", "notification", "read-all">>,
             query |-> NoQuery, body |-> NoBody]
      [] OTHER ->
            [method |-> "DELETE", path |-> <<"api", "notification", "clear-all">>,
             query |-> NoQuery, body |-> NoBody]

\* mutant: a Change Status submenu that lists every column
statusChoicesAll(item) == Range(ColumnIds)

\* the project whose tasks ProjectTasksList shows
ProjectId == "p1"

\* the request onSubmit hands to fetch(url, {method: "POST", headers, body})
formRequestOf(kind, projectId, values) ==
    CASE kind = "createProject" ->
            [method |-> "POST", path |-> <<"api", "project">>, query |-> NoQuery,
             body |-> {<<"name", values.title>>, <<"slug", values.slug>>, <<"icon", "">>,
                       <<"workspaceId", WorkspaceId>>}]
      [] kind = "createTask" ->
            [method |-> "POST", path |-> <<"api", "task", projectId>>, query |-> NoQuery,
             body |-> {<<"title", values.title>>, <<"description", "">>,
                       <<"status", values.status>>,
                       <<"priority", OrElse(values.priority, "no-priority")>>}]
      [] OTHER ->
            [method |-> "POST", path |-> <<"api", "task", values.projectId>>, query |-> NoQuery,
             body |-> {<<"projectId", values.projectId>>, <<"title", values.title>>,
                       <<"description", "">>, <<"dueDate", "">>,
                       <<"priority", OrElse(values.priority, "no-priority")>>,
                       <<"status", "to-do">>}]

\* mutant: a validation that looks at the title only
validTitleOnly(kind, values, projects) == values.title # ""

\* the `validation` of useForm: FormValidation.Required fields are not
\* empty, and the Create Task command wants a project when it has loaded any
valid(kind, values, projects) ==
    CASE kind = "createProject" -> values.title # "" /\ values.slug # ""
      [] kind = "createTask" ->
            values.title # "" /\ values.priority # "" /\ values.status # ""
      [] OTHER -> values.title # "" /\ ~(projects # {} /\ values.projectId = "")

\* columnStatuses.filter((status) => status.id !== item.status)
statusChoices(item) == Range(ColumnIds) \ {item.status}

\* columnPriorities.filter((priority) => priority.id !== (item.priority || "no-priority"))
priorityChoices(item) == Range(columnPriorities) \ {OrElse(item.priority, "no-priority")}

\* the priorities the user picks among the offered ones
UserPriorities == {"no-priority", "high"}

\* the record whose action panel is open: an item of the list, or the task
\* of TaskDetailView
shownRecord(id) == IF command = "task-detail" THEN detail.task ELSE data[id]

\* TaskDetailView: `if (isLoading || !task)` returns the loading Detail, which
\* has no action; otherwise the task is shown with its action panel
taskShown == detail.phase = "idle" /\ detail.task.exists

Displayed ==
    IF command = "task-detail"
    THEN IF taskShown THEN {TaskId} ELSE {}
    ELSE {id \in ItemIds : data[id].exists}

\* The <<id, value>> the action panels of the displayed list offer for a handler.
Offered(kind) ==
    CASE kind = "updateTaskStatus" ->
            UNION {{<<id, v>> : v \in statusChoices(shownRecord(id))} : id \in Displayed}
      [] kind = "updateTaskPriority" ->
            UNION {{<<id, v>> : v \in priorityChoices(shownRecord(id)) \cap UserPriorities} :
                    id \in Displayed}
      [] kind \in ItemKinds -> {<<id, "">> : id \in Displayed}
      [] OTHER -> IF Displayed = {} THEN {} ELSE {<<"", "">>}

\* the value of the record the list displays, which the chosen one replaces
DisplayedValue(kind, id) ==
    CASE kind = "updateTaskStatus" -> shownRecord(id).status
      [] kind = "updateTaskPriority" -> priorityRaw(shownRecord(id).priority)
      [] OTHER -> ""

\* the handler shows its animated toast: await showToast({style: Animated})
showAnimated(r) == [r EXCEPT !.pc = "toast", !.toast = "Animated", !.shown = @ + 1]

\* the handler calls fetch and awaits the response
sendRequest(r) ==
    [r EXCEPT !.pc = "fetch",
              !.sent = Append(@, IF r.kind \in FormKinds
                                 THEN formRequestOf(r.kind, r.id, r.form)
                                 ELSE requestOf(r.kind, r.id, r.value))]

\* handleSubmit of useForm: onSubmit runs, up to its first await, when the
\* validation finds no error; otherwise the errors are shown and nothing else
submit(kind, id, values, projects) ==
    LET r == [IdleInvocation EXCEPT !.kind = kind, !.id = id, !.form = values]
    IN  IF ~valid(kind, values, projects)
        THEN [r EXCEPT !.validation = "failed", !.pc = "done"]
        ELSE IF kind \in ToastKinds
             THEN showAnimated([r EXCEPT !.validation = "passed"])
             ELSE sendRequest([r EXCEPT !.validation = "passed"])

\* the first segment of a handler, up to its first await
begin(kind, id, value) ==
    LET r == [IdleInvocation EXCEPT !.kind = kind, !.id = id, !.value = value]
    IN  IF kind \in Destructive
        THEN [r EXCEPT !.pc = "confirm", !.confirmed = "pending"]
        ELSE IF kind \in ListKinds THEN showAnimated(r) ELSE sendRequest(r)

\* a handler that goes on whatever confirmAlert answered
afterConfirmIgnored(r, answer) ==
    LET c == [r EXCEPT !.confirmed = IF answer THEN "yes" ELSE "no"]
    IN  IF r.kind \in ListKinds THEN showAnimated(c) ELSE sendRequest(c)

\* if (!confirmed) return; then the toast (list-projects) or the fetch
afterConfirm(r, answer) ==
    IF ~answer
    THEN [r EXCEPT !.pc = "done", !.confirmed = "no"]
    ELSE LET c == [r EXCEPT !.confirmed = "yes"]
         IN  IF r.kind \in ListKinds THEN showAnimated(c) ELSE sendRequest(c)

\* the title of the failure toast
failureTitle(kind) ==
    CASE kind = "updateTaskStatus" -> "Failed to update task status"
      [] kind = "updateTaskPriority" -> "Failed to update task priority"
      [] kind = "deleteTask" -> "Failed to delete task"
      [] kind = "deleteProject" -> "Failed to delete project"
      [] kind = "markNotificationAsRead" -> "Failed to mark notification as read"
      [] kind = "markAllNotificationsAsRead" -> "Failed to mark all notifications as read"
      [] kind = "clearNotifications" -> "Failed to clear notifications"
      [] kind = "createProject" -> "Failed to create project"
      [] OTHER -> "Failed to create task"

\* the message of the Error fetch rejects with
TransportError == "fetch failed"

\* mutant: a failure report that says nothing of the response
failureReportSilent(r) == <<failureTitle(r.kind), "Unknown error">>

\* the text of the failure report, as its parts: the title, and for the
\* list-projects handlers and forms error.message, which is the text thrown
\* on !response.ok (`${title}: ${response.statusText}`) or that of the
\* rejected fetch; the Create Task command throws the message of the
\* response body, or the status code when the body has none
failureReport(r) ==
    IF r.kind \in ToastKinds
    THEN IF r.outcome = "rejected"
         THEN <<failureTitle(r.kind), failureTitle(r.kind), ": ", r.response.statusText>>
         ELSE <<failureTitle(r.kind), TransportError>>
    ELSE IF r.kind = "createTaskCommand"
    THEN IF r.outcome = "rejected"
         THEN IF r.response.message # ""
              THEN <<failureTitle(r.kind), ": ", r.response.message>>
              ELSE <<failureTitle(r.kind), ": ", "HTTP error! status: ", r.response.status>>
         ELSE <<failureTitle(r.kind), ": ", TransportError>>
    ELSE <<failureTitle(r.kind)>>

\* the failure report: toast.style = Failure on the toast already shown
\* (list-projects) or showToast(Failure, ...) (notifications)
reportFailure(r) ==
    IF r.kind \in ToastKinds
    THEN [r EXCEPT !.toast = "Failure", !.failures = @ + 1, !.pc = "done",
                   !.report = failureReport(r)]
    ELSE [r EXCEPT !.toast = "Failure", !.failures = @ + 1, !.shown = @ + 1, !.pc = "done",
                   !.report = failureReport(r)]

\* the success path up to `await revalidate()`
requestRefetch(r) ==
    IF r.kind \in ListKinds
    THEN [r EXCEPT !.toast = "Success", !.refetches = @ + 1, !.pc = "revalidate"]
    ELSE [r EXCEPT !.refetches = @ + 1, !.pc = "revalidate"]

\* a handler that revalidates whatever the response was
afterResponseRefetchAlways(r, outcome) ==
    requestRefetch([r EXCEPT !.outcome = outcome])

\* a handler that sends the request once more when it failed
afterResponseRetry(r, outcome) ==
    IF outcome = "ok"
    THEN requestRefetch([r EXCEPT !.outcome = outcome])
    ELSE IF Len(r.sent) < 2
         THEN sendRequest([r EXCEPT !.outcome = "none"])
         ELSE reportFailure([r EXCEPT !.outcome = outcome])

\* mutant: a form that pops before it refreshes
formDonePopFirst(r) ==
    [r EXCEPT !.toast = "Success", !.effects = @ \o <<"pop", "refresh">>,
              !.refetches = @ + 1, !.pc = "done"]

\* the success path of a form: toast.style = Success; onProjectCreated() /
\* onTaskCreated(), which is the list's revalidate and is not awaited; pop().
\* The Create Task command shows its HUD instead, which closes the command.
formDone(r) ==
    IF r.kind = "createTaskCommand"
    THEN [r EXCEPT !.toast = "Success", !.shown = @ + 1, !.effects = @ \o <<"hud">>,
                   !.pc = "done"]
    ELSE [r EXCEPT !.toast = "Success", !.effects = @ \o <<"refresh", "pop">>,
                   !.refetches = @ + 1, !.pc = "done"]

\* the segment after `await fetch(...)`: response.ok, or !response.ok /
\* a rejected fetch, which both end in the failure report
afterResponse(r, outcome) ==
    IF outcome = "ok"
    THEN IF r.kind \in FormKinds
         THEN formDone([r EXCEPT !.outcome = outcome])
         ELSE requestRefetch([r EXCEPT !.outcome = outcome])
    ELSE reportFailure([r EXCEPT !.outcome = outcome])

\* mutant: a handler whose `await revalidate()` throws into its catch
afterRevalidateThrowing(r) ==
    [r EXCEPT !.pc = "done", !.toast = "Failure", !.failures = @ + 1]

\* mutant: a detail view that refetches its task only after a success
afterUpdateIfOk(r) ==
    IF r.detailPc = "await" /\ r.pc = "done"
    THEN IF r.outcome = "ok"
         THEN [r EXCEPT !.detailPc = "revalidate", !.detailRefetches = @ + 1]
         ELSE [r EXCEPT !.detailPc = "done"]
    ELSE r

\* handleStatusUpdate / handlePriorityUpdate of TaskDetailView, after
\* `await onStatusUpdate(...)`: once the handler of the list has returned,
\* `await revalidate()` of the detail view.  detailPc is the position in
\* this function: "none" when the handler was called from the list itself.
afterUpdate(r) ==
    IF r.detailPc = "await" /\ r.pc = "done"
    THEN [r EXCEPT !.detailPc = "revalidate", !.detailRefetches = @ + 1]
    ELSE r

\* the segment after `await revalidate()`: the promise of revalidate
\* resolves however its GET ended, so the catch is not entered
afterRevalidate(r) ==
    IF r.kind \in ListKinds
    THEN [r EXCEPT !.pc = "done"]
    ELSE [r EXCEPT !.pc = "done", !.toast = "Success", !.shown = @ + 1]

\* The value a JSON body gives a key.
BodyValue(req, key) == (CHOOSE p \in req.body : p[1] = key)[2]

\* The operation of the remote data source a request addresses.
Route(req) ==
    LET p == req.path
        op(name, id, value) == [op |-> name, id |-> id, value |-> value]
    IN  CASE req.method = "PUT" /\ Len(p) = 4 /\ SubSeq(p, 1, 3) = <<"api", "task", "status">> ->
                op("setStatus", p[4], BodyValue(req, "status"))
          [] req.method = "PUT" /\ Len(p) = 4 /\ SubSeq(p, 1, 3) = <<"api", "task", "priority">> ->
                op("setPriority", p[4], BodyValue(req, "priority"))
          [] req.method = "DELETE" /\ Len(p) = 3 /\ SubSeq(p, 1, 2) = <<"api", "task">> ->
                op("delete", p[3], "")
          [] req.method = "DELETE" /\ Len(p) = 3 /\ SubSeq(p, 1, 2) = <<"api", "project">> ->
                op("delete", p[3], "")
          [] req.method = "PATCH" /\ p = <<"api", "notification", "read-all">> ->
                op("readAll", "", "")
          [] req.method = "DELETE" /\ p = <<"api", "notification", "clear-all">> ->
                op("clearAll", "", "")
          [] req.method = "PATCH" /\ Len(p) = 4 /\ SubSeq(p, 1, 2) = <<"api", "notification">>
                /\ p[4] = "read" ->
                op("read", p[3], "")
          [] req.method = "POST" /\ p = <<"api", "project">> ->
                op("create", "", [status |-> "", priority |-> ""])
          [] req.method = "POST" /\ Len(p) = 3 /\ SubSeq(p, 1, 2) = <<"api", "task">> ->
                op("create", "", [status |-> BodyValue(req, "status"),
                                  priority |-> BodyValue(req, "priority")])
          [] OTHER -> op("unknown", "", "")

\* the identifier the remote data source gives the next record it creates
FreeIds(coll) == {id \in ItemIds : ~coll[id].exists}

\* The remote data source can carry the request out.
Applicable(coll, req) ==
    LET o == Route(req)
    IN  /\ o.op # "unknown"
        /\ (o.op \in {"setStatus", "setPriority", "delete", "read"}) =>
              (o.id \in ItemIds /\ coll[o.id].exists)
        /\ (o.op = "create") => (FreeIds(coll) # {})

\* The collection after the remote data source carried the request out.
apply(coll, req) ==
    LET o == Route(req)
    IN  CASE o.op = "setStatus" -> [coll EXCEPT ![o.id].status = o.value]
          [] o.op = "setPriority" -> [coll EXCEPT ![o.id].priority = o.value]
          [] o.op = "delete" -> [coll EXCEPT ![o.id] = Gone]
          [] o.op = "read" -> [coll EXCEPT ![o.id].isRead = TRUE]
          [] o.op = "readAll" ->
                [id \in ItemIds |-> IF coll[id].exists
                                    THEN [coll[id] EXCEPT !.isRead = TRUE]
                                    ELSE coll[id]]
          [] o.op = "clearAll" -> EmptyCollection
          [] o.op = "create" ->
                [coll EXCEPT ![CHOOSE id \in FreeIds(coll) : TRUE] =
                    [exists |-> TRUE, status |-> o.value.status,
                     priority |-> o.value.priority, isRead |-> FALSE]]
          [] OTHER -> coll

\* the collection the mounted view displays: the tasks of a project, the
\* projects, or the notifications
ViewCollection(cmd) ==
    CASE cmd \in {"tasks", "create-task", "task-detail"} -> "task"
      [] cmd = "notifications" -> "notification"
      [] OTHER -> "project"

\* the request acts on the collection the view displays
Targets(cmd, req) == req.path[2] = ViewCollection(cmd)

\* the views pushed over a list
Pushed == {"create-project", "create-task", "task-detail"}

\* One of the views cmds is mounted.  A list or the Create Task command has
\* just been mounted and its useFetch has sent the first GET; a pushed view
\* lies over its list, which has loaded, and TaskDetailView has sent the GET
\* of its task.  The workspace of the Create Task command may hold no
\* project.
Mounted(cmds) ==
    /\ command \in cmds
    /\ remote \in {InitialCollection(command)}
                    \cup (IF command = "create-task-command" THEN {EmptyCollection} ELSE {})
    /\ data = IF command \in Pushed THEN remote ELSE EmptyCollection
    /\ fetch = IF command \in Pushed
               THEN NoFetch
               ELSE [phase |-> "sent", owner |-> 0, snap |-> EmptyCollection]
    /\ detail = IF command = "task-detail" THEN [NoDetail EXCEPT !.phase = "sent"] ELSE NoDetail
    /\ gets = IF fetch = NoFetch
              THEN [NoGets EXCEPT !.of[0] = "ok", !.last = "ok"]
              ELSE [NoGets EXCEPT !.of[0] = "pending"]
    /\ inv = [i \in Invocations |-> IdleInvocation]
    /\ SortIdle
    /\ RenderIdle
    /\ NotifIdle
    /\ UrgencyIdle
    /\ TextIdle
    /\ ItemIdle
    /\ SlugIdle
    /\ viewPc = "loading"

\* the three lists, the two forms pushed over them and the Create Task command
Init == Mounted({"tasks", "projects", "notifications"} \cup FormCommands)

\* the user triggers an action of a displayed list item
Invoke(i) ==
    /\ inv[i].pc = "idle"
    /\ \A j \in 1..(i - 1) : inv[j].pc # "idle"
    /\ \E kind \in KindsOf(command) \ FormKinds :
          \E c \in Offered(kind) :
              inv' = [inv EXCEPT ![i] = [begin(kind, c[1], c[2]) EXCEPT
                                            !.old = DisplayedValue(kind, c[1]),
                                            !.detailPc = IF command = "task-detail"
                                                         THEN "await" ELSE "none"]]
    /\ UNCHANGED <<command, remote, data, fetch, detail, gets, pureVars>>

\* the values a form is submitted with
FormValues(kind) ==
    CASE kind = "createProject" ->
            {[NoForm EXCEPT !.title = t, !.slug = g] : t \in {"", "Kaneo"}, g \in {"", "KAN"}}
      [] kind = "createTask" ->
            {[NoForm EXCEPT !.title = t, !.priority = q, !.status = "to-do"] :
                t \in {"", "Buy milk"}, q \in {"no-priority", "high"}}
      [] OTHER ->
            {[NoForm EXCEPT !.title = t, !.projectId = pid, !.priority = q] :
                t \in {"", "Buy milk"}, pid \in {""} \cup Displayed, q \in {"", "high"}}

\* the form is on screen: no onSubmit has popped it or closed the command
FormOpen == \A j \in Invocations : inv[j].effects = NoEffects

\* the user submits the form: <Action.SubmitForm onSubmit={handleSubmit}>
Submit(i) ==
    /\ inv[i].pc = "idle"
    /\ \A j \in 1..(i - 1) : inv[j].pc # "idle"
    /\ FormOpen
    /\ \E kind \in KindsOf(command) \cap FormKinds :
          \E values \in FormValues(kind) :
              inv' = [inv EXCEPT ![i] =
                        submit(kind,
                               IF kind = "createTask" THEN ProjectId
                               ELSE IF kind = "createProject" THEN "" ELSE values.projectId,
                               values, Displayed)]
    /\ UNCHANGED <<command, remote, data, fetch, detail, gets, pureVars>>

\* confirmAlert resolves
AnswerConfirm(i) ==
    /\ inv[i].pc = "confirm"
    /\ \E answer \in BOOLEAN : inv' = [inv EXCEPT ![i] = afterConfirm(inv[i], answer)]
    /\ UNCHANGED <<command, remote, data, fetch, detail, gets, pureVars>>

\* showToast resolves
ToastShown(i) ==
    /\ inv[i].pc = "toast"
    /\ inv' = [inv EXCEPT ![i] = sendRequest(inv[i])]
    /\ UNCHANGED <<command, remote, data, fetch, detail, gets, pureVars>>

\* the messages a non-2xx response body may hold ("" when it holds none)
ServerMessages == {"", "Task not found"}

\* the responses of the remote data source
Responses(outcome) ==
    CASE outcome = "ok" ->
            {[ok |-> TRUE, status |-> "200", statusText |-> "OK", message |-> ""]}
      [] outcome = "rejected" ->
            {[ok |-> FALSE, status |-> "404", statusText |-> "Not Found", message |-> m] :
                m \in ServerMessages}
      [] OTHER -> {NoResponse}

\* revalidate is called by i: its GET starts, and the GET in flight, if
\* any, is aborted
started(g, f, i) ==
    [g EXCEPT !.of = [c \in Callers |->
                        IF c = i THEN "pending"
                        ELSE IF f.phase # "idle" /\ c = f.owner THEN "superseded"
                        ELSE g.of[c]]]

\* the GET in flight ends
ended(g, f, how) == [g EXCEPT !.of[f.owner] = how, !.last = how]

\* revalidate of TaskDetailView is called by i when its count has grown
detailAfter(r, rNext, i) ==
    IF rNext.detailRefetches > r.detailRefetches
    THEN [detail EXCEPT !.phase = "sent", !.owner = i]
    ELSE detail

\* What the end of the request does to the remote collection, the
\* invocation and useFetch: 2xx (carried out), non-2xx (not carried out), or
\* a transport error (carried out or not).
ResponseEffects(i, outcome, applied) ==
    /\ (outcome = "ok") => applied
    /\ (outcome = "rejected") => ~applied
    /\ (applied /\ Targets(command, inv[i].sent[Len(inv[i].sent)])) =>
          Applicable(remote, inv[i].sent[Len(inv[i].sent)])
    /\ remote' = IF applied /\ Targets(command, inv[i].sent[Len(inv[i].sent)])
                 THEN apply(remote, inv[i].sent[Len(inv[i].sent)])
                 ELSE remote
    /\ \E response \in Responses(outcome) :
          inv' = [inv EXCEPT ![i] =
                    afterUpdate(afterResponse([inv[i] EXCEPT !.response = response],
                                              outcome))]
    /\ detail' = detailAfter(inv[i], inv'[i], i)
    /\ fetch' = IF inv'[i].refetches > inv[i].refetches
                THEN [phase |-> "sent", owner |-> i, snap |-> EmptyCollection]
                ELSE fetch
    /\ gets' = IF inv'[i].refetches > inv[i].refetches
               THEN started(gets, fetch, i)
               ELSE gets

\* a handler that also writes the new value into the displayed collection
ReceiveResponseOptimistic(i) ==
    /\ inv[i].pc = "fetch"
    /\ \E outcome \in {"ok", "rejected", "error"} :
          \E applied \in BOOLEAN : ResponseEffects(i, outcome, applied)
    /\ data' = IF Applicable(data, inv[i].sent[1]) THEN apply(data, inv[i].sent[1]) ELSE data
    /\ UNCHANGED <<command, pureVars>>

\* `await fetch(...)` ends
ReceiveResponse(i) ==
    /\ inv[i].pc = "fetch"
    /\ \E outcome \in {"ok", "rejected", "error"} :
          \E applied \in BOOLEAN : ResponseEffects(i, outcome, applied)
    /\ UNCHANGED <<command, data, pureVars>>

\* the remote data source answers the GET of useFetch
FetchServe ==
    /\ fetch.phase = "sent"
    /\ fetch' = [fetch EXCEPT !.phase = "served", !.snap = remote]
    /\ UNCHANGED <<command, remote, data, detail, gets, inv, pureVars>>

\* useFetch receives the collection: data is replaced by it
FetchDeliver ==
    /\ fetch.phase = "served"
    /\ data' = fetch.snap
    /\ fetch' = NoFetch
    /\ gets' = ended(gets, fetch, "ok")
    /\ UNCHANGED <<command, remote, detail, inv, pureVars>>

\* the GET of useFetch fails: data is kept
FetchFail ==
    /\ fetch.phase \in {"sent", "served"}
    /\ fetch' = NoFetch
    /\ gets' = ended(gets, fetch, "failed")
    /\ UNCHANGED <<command, remote, data, detail, inv, pureVars>>

\* `await revalidate()` ends: the GET ended or a later revalidate replaced it
FinishRevalidate(i) ==
    /\ inv[i].pc = "revalidate"
    /\ fetch.phase = "idle" \/ fetch.owner # i
    /\ inv' = [inv EXCEPT ![i] = afterUpdate(afterRevalidate(inv[i]))]
    /\ detail' = detailAfter(inv[i], inv'[i], i)
    /\ UNCHANGED <<command, remote, data, fetch, gets, pureVars>>

\* the remote data source answers the GET of the detail view's useFetch
DetailServe ==
    /\ detail.phase = "sent"
    /\ detail' = [detail EXCEPT !.phase = "served", !.snap = remote[TaskId]]
    /\ UNCHANGED <<command, remote, data, fetch, gets, inv, pureVars>>

\* the detail view receives the task
DetailDeliver ==
    /\ detail.phase = "served"
    /\ detail' = [NoDetail EXCEPT !.task = detail.snap]
    /\ UNCHANGED <<command, remote, data, fetch, gets, inv, pureVars>>

\* the GET of the detail view fails: its task is kept
DetailFail ==
    /\ detail.phase \in {"sent", "served"}
    /\ detail' = [NoDetail EXCEPT !.task = detail.task]
    /\ UNCHANGED <<command, remote, data, fetch, gets, inv, pureVars>>

\* `await revalidate()` of the detail view ends
FinishDetailRevalidate(i) ==
    /\ inv[i].detailPc = "revalidate"
    /\ detail.phase = "idle" \/ detail.owner # i
    /\ inv' = [inv EXCEPT ![i].detailPc = "done"]
    /\ UNCHANGED <<command, remote, data, fetch, detail, gets, pureVars>>

Next ==
    \/ \E i \in Invocations : Invoke(i)
    \/ \E i \in Invocations : Submit(i)
    \/ \E i \in Invocations : AnswerConfirm(i)
    \/ \E i \in Invocations : ToastShown(i)
    \/ \E i \in Invocations : ReceiveResponse(i)
    \/ FetchServe
    \/ FetchDeliver
    \/ FetchFail
    \/ \E i \in Invocations : FinishRevalidate(i)

Spec == Init /\ [][Next]_vars

\* ProjectTasksList, alone or with TaskDetailView pushed over it
InitTasks == Mounted({"tasks", "task-detail"})

NextTasks ==
    \/ \E i \in Invocations : Invoke(i)
    \/ \E i \in Invocations : AnswerConfirm(i)
    \/ \E i \in Invocations : ToastShown(i)
    \/ \E i \in Invocations : ReceiveResponse(i)
    \/ FetchServe
    \/ FetchDeliver
    \/ FetchFail
    \/ \E i \in Invocations : FinishRevalidate(i)
    \/ DetailServe
    \/ DetailDeliver
    \/ DetailFail
    \/ \E i \in Invocations : FinishDetailRevalidate(i)

SpecTasks == InitTasks /\ [][NextTasks]_vars

Failed(r) == r.outcome \in {"rejected", "error"}

\* C3: every mutation handler issues its one request, awaits its completion
\* and only then requests the refetch: the refetch is requested exactly when
\* the response was 2xx, never before the response and never after a failure.
C3_RefetchOnlyAfterSuccess ==
    \A i \in Invocations :
        /\ (inv[i].kind \notin FormKinds) =>
              (inv[i].refetches = (IF inv[i].outcome = "ok" THEN 1 ELSE 0))
        /\ (inv[i].outcome # "none") => (Len(inv[i].sent) = 1)
        /\ (inv[i].pc = "revalidate") => (inv[i].outcome = "ok")
        /\ (fetch.owner = i) => (inv[i].outcome = "ok")

\* one handler failed and requested no refetch, another succeeded and did
C3_Witness ==
    /\ command = "notifications"
    /\ inv[1].kind = "markNotificationAsRead" /\ inv[1].outcome = "rejected"
    /\ inv[1].pc = "done" /\ inv[1].refetches = 0
    /\ inv[2].kind = "clearNotifications" /\ inv[2].outcome = "ok"
    /\ inv[2].refetches = 1 /\ fetch.owner = 2

C5_OneRequestOneFailureReport ==
    \A i \in Invocations :
        /\ Len(inv[i].sent) <= 1
        /\ inv[i].failures <= 1
        /\ Failed(inv[i]) =>
              /\ inv[i].failures = 1
              /\ inv[i].shown = 1
              /\ inv[i].toast = "Failure"
              /\ inv[i].pc = "done"

\* a list-projects handler and a notifications-style transport failure
C5_Witness ==
    /\ inv[1].kind \in {"updateTaskStatus", "clearNotifications"}
    /\ inv[1].outcome = "error"
    /\ inv[1].pc = "done"
    /\ Len(inv[1].sent) = 1
    /\ inv[1].failures = 1

\* C6: deleteTask, deleteProject and clearNotifications send their DELETE
\* request only after the confirmation was accepted; when it is declined
\* they send no request, show no toast and request no refetch.
C6_ConfirmBeforeDelete ==
    \A i \in Invocations :
        (inv[i].kind \in Destructive) =>
            /\ (inv[i].sent # NoRequests) =>
                  (inv[i].confirmed = "yes" /\ inv[i].sent[1].method = "DELETE")
            /\ (inv[i].shown > 0 \/ inv[i].refetches > 0) => (inv[i].confirmed = "yes")
            /\ (inv[i].confirmed = "no") =>
                  /\ inv[i].pc = "done"
                  /\ inv[i].sent = NoRequests
                  /\ inv[i].toast = "none"
                  /\ inv[i].shown = 0
                  /\ inv[i].refetches = 0

\* one delete was declined and ended, another was accepted and sent
C6_Witness ==
    /\ inv[1].kind \in Destructive /\ inv[1].confirmed = "no" /\ inv[1].pc = "done"
    /\ inv[2].kind \in Destructive /\ inv[2].confirmed = "yes" /\ Len(inv[2].sent) = 1

\* the handler has called fetch
Sent(r) == r.pc \in {"fetch", "revalidate"} \/ r.outcome # "none"

\* C10: a status change of task id to newStatus produces exactly one
\* request, PUT /task/status/{id} (under the /api root) with body
\* {status: newStatus}; a priority change one PUT /task/priority/{id} with
\* body {priority}; a task deletion one DELETE /task/{id}; and the remote
\* collection changes by nothing but what these requests ask for.
C10_RequestDescriptors ==
    \A i \in Invocations :
        /\ Len(inv[i].sent) <= 1
        /\ (inv[i].kind = "updateTaskStatus" /\ Sent(inv[i])) =>
              inv[i].sent = <<[method |-> "PUT",
                               path |-> <<"api", "task", "status", inv[i].id>>,
                               query |-> {},
                               body |-> {<<"status", inv[i].value>>}]>>
        /\ (inv[i].kind = "updateTaskPriority" /\ Sent(inv[i])) =>
              inv[i].sent = <<[method |-> "PUT",
                               path |-> <<"api", "task", "priority", inv[i].id>>,
                               query |-> {},
                               body |-> {<<"priority", inv[i].value>>}]>>
        /\ (inv[i].kind = "deleteTask" /\ Sent(inv[i])) =>
              inv[i].sent = <<[method |-> "DELETE",
                               path |-> <<"api", "task", inv[i].id>>,
                               query |-> {},
                               body |-> {}]>>
        /\ (command = "tasks") =>
              \A id \in ItemIds :
                  /\ (~remote[id].exists) =>
                        \E j \in Invocations :
                            Sent(inv[j]) /\ inv[j].kind = "deleteTask" /\ inv[j].id = id
                  /\ (remote[id].exists /\ remote[id].status # "to-do") =>
                        \E j \in Invocations :
                            /\ Sent(inv[j]) /\ inv[j].kind = "updateTaskStatus"
                            /\ inv[j].id = id /\ inv[j].value = remote[id].status
                  /\ (remote[id].exists /\ remote[id].priority # "") =>
                        \E j \in Invocations :
                            /\ Sent(inv[j]) /\ inv[j].kind = "updateTaskPriority"
                            /\ inv[j].id = id /\ inv[j].value = remote[id].priority

\* task 42 was moved to done and task 43 deleted, each by its one request
C10_Witness ==
    /\ inv[1].kind = "updateTaskStatus" /\ inv[1].id = "42" /\ inv[1].value = "done"
    /\ inv[1].outcome = "ok"
    /\ inv[2].kind = "deleteTask" /\ inv[2].id = "43" /\ inv[2].outcome = "ok"
    /\ remote["42"].status = "done"
    /\ ~remote["43"].exists

\* C13: the Change Status submenu never offers the task's current status
\* and the Change Priority submenu never offers its current priority, an
\* absent priority counting as no-priority; so every status or priority
\* request sent carries a value that differs from the value displayed when
\* it was chosen.
C13_NewValueDiffers ==
    /\ \A c \in Offered("updateTaskStatus") : c[2] # shownRecord(c[1]).status
    /\ \A c \in Offered("updateTaskPriority") :
          c[2] # (IF shownRecord(c[1]).priority = "" THEN "no-priority"
                  ELSE shownRecord(c[1]).priority)
    /\ \A i \in Invocations :
          inv[i].kind \in {"updateTaskStatus", "updateTaskPriority"} =>
              /\ inv[i].value # inv[i].old
              /\ \A k \in DOMAIN inv[i].sent :
                    \A pr \in inv[i].sent[k].body : pr[2] # inv[i].old

C13_Witness ==
    \E i \in Invocations :
        /\ inv[i].kind = "updateTaskPriority"
        /\ inv[i].old = "no-priority"
        /\ data[inv[i].id].priority = ""
        /\ Len(inv[i].sent) = 1
        /\ BodyValue(inv[i].sent[1], "priority") = "high"

\* the report of r carries the status text of the response, or the message
\* of the server when there is one
CarriesStatusTextOrMessage(r) ==
    \/ r.response.statusText \in Range(r.report)
    \/ r.response.message # "" /\ r.response.message \in Range(r.report)

C19_RefreshThenPop ==
    /\ \A i \in Invocations :
          inv[i].kind \in {"createProject", "createTask"} =>
              /\ inv[i].outcome = "ok" =>
                    /\ inv[i].effects = <<"refresh", "pop">>
                    /\ inv[i].refetches = 1
                    /\ inv[i].toast = "Success"
              /\ inv[i].outcome # "ok" =>
                    /\ inv[i].effects = NoEffects
                    /\ inv[i].refetches = 0
              /\ Failed(inv[i]) => (inv[i].toast = "Failure" /\ inv[i].failures = 1)
              /\ fetch.owner = i => inv[i].outcome = "ok"
    /\ (command \in {"create-project", "create-task"}
        /\ \A i \in Invocations : inv[i].outcome # "ok") => FormOpen

\* a first submission failed and left the form open, a second one succeeded
C19_Witness ==
    /\ inv[1].kind \in {"createProject", "createTask"}
    /\ Failed(inv[1]) /\ inv[1].effects = NoEffects /\ inv[1].toast = "Failure"
    /\ inv[2].outcome = "ok" /\ inv[2].effects = <<"refresh", "pop">>
    /\ fetch.owner = 2

\* C20: the Create Task command sends its POST exactly when the title is
\* not empty and a project is selected or no project is loaded; with a
\* project loaded and none selected the validation rejects the submission
\* and no request is sent; every request carries status "to-do" and the
\* chosen priority, or no-priority when none was chosen.
C20_CreateTaskValidated ==
    [][ \A i \in Invocations :
          (inv[i].pc = "idle" /\ inv'[i].kind = "createTaskCommand") =>
              /\ (Len(inv'[i].sent) = 1) <=>
                    /\ inv'[i].form.title # ""
                    /\ (inv'[i].form.projectId # "" \/ Displayed = {})
              /\ Len(inv'[i].sent) <= 1
              /\ (Displayed # {} /\ inv'[i].form.projectId = "") =>
                    /\ inv'[i].validation = "failed"
                    /\ inv'[i].sent = NoRequests
                    /\ inv'[i].pc = "done"
              /\ \A k \in DOMAIN inv'[i].sent :
                    /\ inv'[i].sent[k].method = "POST"
                    /\ BodyValue(inv'[i].sent[k], "status") = "to-do"
                    /\ BodyValue(inv'[i].sent[k], "priority") =
                          (IF inv'[i].form.priority = "" THEN "no-priority"
                           ELSE inv'[i].form.priority) ]_vars

\* a submission without a project was rejected while projects were loaded,
\* and one with a project and no priority was sent
C20_Witness ==
    /\ command = "create-task-command"
    /\ inv[1].validation = "failed" /\ inv[1].form.title # "" /\ inv[1].form.projectId = ""
    /\ inv[1].sent = NoRequests
    /\ inv[2].form.projectId # "" /\ inv[2].form.priority = ""
    /\ Len(inv[2].sent) = 1
    /\ BodyValue(inv[2].sent[1], "priority") = "no-priority"

\* the handler has returned
Returned(r) == r.pc = "done"

\* C16: for updateTaskStatus, updateTaskPriority, deleteTask and
\* deleteProject the toast ends as Failure exactly when the mutation request
\* failed; once the request returned 2xx the toast is Success and stays so
\* whatever becomes of the refetch; no handler returns with its toast still
\* Animated.
C16_ToastFollowsRequest ==
    \A i \in Invocations :
        inv[i].kind \in ListKinds =>
            /\ Returned(inv[i]) =>
                  /\ (inv[i].toast = "Failure") <=> Failed(inv[i])
                  /\ inv[i].toast # "Animated"
            /\ inv[i].outcome = "ok" => inv[i].toast = "Success"
            /\ (Returned(inv[i]) /\ inv[i].confirmed # "no") =>
                  inv[i].toast \in {"Success", "Failure"}

\* the request of one handler returned 2xx, its refetch failed, and the
\* handler returned with its toast Success; another one failed
C16_Witness ==
    \E i, j \in Invocations :
        /\ inv[i].kind \in ListKinds /\ inv[i].outcome = "ok"
        /\ gets.of[i] = "failed"
        /\ Returned(inv[i]) /\ inv[i].toast = "Success"
        /\ inv[j].kind \in ListKinds /\ Failed(inv[j])
        /\ Returned(inv[j]) /\ inv[j].toast = "Failure"

\* no mutation request and no GET of useFetch is in flight
Quiescent ==
    /\ fetch.phase = "idle"
    /\ detail.phase = "idle"
    /\ \A i \in Invocations : inv[i].pc \notin {"fetch", "revalidate"}
    /\ \A i \in Invocations : inv[i].detailPc # "revalidate"

ViaDetail == {i \in Invocations : inv[i].detailPc # "none"}

\* the update handler of the parent list has returned to the detail view
ParentReturned(i) == inv[i].pc = "done"

C18_DetailAlwaysRefetched ==
    \A i \in ViaDetail :
        /\ inv[i].kind \in {"updateTaskStatus", "updateTaskPriority"}
        /\ inv[i].detailRefetches = (IF ParentReturned(i) THEN 1 ELSE 0)
        /\ (inv[i].detailPc = "await") = ~ParentReturned(i)
        /\ ParentReturned(i) => inv[i].outcome \in {"ok", "rejected", "error"}
        /\ (detail.phase # "idle" /\ detail.owner = i) => ParentReturned(i)
        /\ inv[i].refetches = (IF inv[i].outcome = "ok" THEN 1 ELSE 0)

C18_Witness ==
    \E i, j \in ViaDetail :
        /\ inv[i].detailPc = "done" /\ inv[i].outcome \in {"rejected", "error"}
        /\ inv[i].refetches = 0 /\ inv[i].detailRefetches = 1
        /\ inv[j].detailPc = "done" /\ inv[j].outcome = "ok"
        /\ inv[j].refetches = 1 /\ inv[j].detailRefetches = 1

(***************************************************************************)
(* The slug of CreateProjectForm, said without the operators of the form:  *)
(* a word begins where a character that is not whitespace has no such      *)
(* character before it.                                                    *)
(***************************************************************************)
WordStarts(s) ==
    SelectSeq([i \in 1..Len(s) |-> i],
              LAMBDA i : ~IsSpace(s[i]) /\ (i = 1 \/ IsSpace(s[i - 1])))

FirstLetters(s, n) ==
    [k \in 1..(IF Len(WordStarts(s)) < n THEN Len(WordStarts(s)) ELSE n) |->
        s[WordStarts(s)[k]]]

FirstWord(s) ==
    LET b == WordStarts(s)[1]
        e == CHOOSE j \in b..Len(s) :
                 /\ \A k \in b..j : ~IsSpace(s[k])
                 /\ j = Len(s) \/ IsSpace(s[j + 1])
    IN  SubSeq(s, b, e)

FirstChars(s, n) == [k \in 1..(IF Len(s) < n THEN Len(s) ELSE n) |-> s[k]]

IsUpperCase(s) == \A i \in DOMAIN s : s[i] \notin {"a", "ß"}

\* at most three characters of the upper case of s
UpperThree(s) == FirstChars(toUpperCase(s), 3)

\* C21 as stated: the slug has at most 3 characters and is upper-case; it
\* is empty when the name has no word, the first letters of the first three
\* whitespace-separated words when the name contains a space, and otherwise
\* the first three characters of the name.
C21_SlugOfName ==
    /\ Len(formSlug) <= 3
    /\ IsUpperCase(formSlug)
    /\ formSlug = IF WordStarts(formName) = <<>> THEN <<>>
                  ELSE IF \E i \in DOMAIN formName : formName[i] = " "
                       THEN UpperThree(FirstLetters(formName, 3))
                       ELSE UpperThree(FirstChars(formName, 3))

\* C21, amended: the slug has at most 3 characters and is upper-case; it is
\* empty when the name has no word, the first letters of the first three
\* whitespace-separated words when the name contains a space (U+0020), and
\* otherwise the first three characters of the first whitespace-separated
\* word, which is not the start of the name when other whitespace leads it
\* and stops short of three characters when other whitespace ends the word.
C21_SlugOfFirstWord ==
    /\ Len(formSlug) <= 3
    /\ IsUpperCase(formSlug)
    /\ formSlug = IF WordStarts(formName) = <<>> THEN <<>>
                  ELSE IF \E i \in DOMAIN formName : formName[i] = " "
                       THEN UpperThree(FirstLetters(formName, 3))
                       ELSE UpperThree(FirstChars(FirstWord(formName), 3))

\* two words separated by a tab, no space: the slug is the first word, cut
\* at the tab
C21_Witness ==
    /\ formName = <<"a", "\t", "a", "a">>
    /\ formSlug = <<"A">>

====
